---- MODULE Spec2Model ----
(***************************************************************************)
(* Model of configs/martian/switchable_hetproc.py: the switchable          *)
(* heterogeneous processor (SwitchableHetProcessor) and its two-key        *)
(* helper (CoreSwitchableHetProcessor).                                    *)
(*                                                                         *)
(* A processor is built from a dictionary  key -> list of cores  and a     *)
(* starting key.  The model follows one processor object from the call of  *)
(* its constructor through incorporate_processor, switch_to_processor and  *)
(* switch.  The simulator call m5.switchCpus is external: it either        *)
(* returns or raises, which the model chooses nondeterministically.        *)
(***************************************************************************)
EXTENDS Integers, Sequences, FiniteSets, TLC

\* ------------------------------------------------------------------------
\* Bounds and the universe of inputs
\* ------------------------------------------------------------------------

\* Largest number of core wrappers in the dictionary, all lists together.
MaxCores == 4

\* The EXIT events the guest raises in one run (at most).
MaxExits == 2

\* The factor in [processor.switch] * 0 of the run script.
SwitchRepeat == 0

\* The core wrappers (BaseCPUCore objects) a dictionary can be built from.
Handles == {"A0", "A1", "B0", "B1"}

\* Keys in dictionary (insertion) order; the helper uses exactly these.
KeyOrder == <<"start", "switch", "alt">>

\* A key no dictionary has.
UnknownKey == "bogus"

\* The key sets of the dictionaries considered.
KeySets == {{"start"}, {"start", "switch"}, {"start", "switch", "alt"}}

\* Keys a caller may pass to the constructor or to switch_to_processor.
CallKeys == {"start", "switch", "alt", UnknownKey}

\* Every simulated object: the core's own SimObject ("cpu") and the
\* objects below it in the SimObject tree.
SubObjects == {"mmu", "interrupts"}
Objects == Handles \X ({"cpu"} \cup SubObjects)

\* core.is_kvm_core(): the A cores are KVM cores, the B cores are not.
is_kvm_core == [h \in Handles |-> h \in {"A0", "A1"}]

\* The two ISA assignments considered: all cores X86, or B1 an ARM core.
IsaChoices ==
    { [h \in Handles |-> "X86"],
      [h \in Handles |-> IF h = "B1" THEN "ARM" ELSE "X86"] }

Range(s) == {s[i] : i \in 1..Len(s)}

\* Lists of distinct cores of length n.
InjSeqs(n) ==
    {s \in [1..n -> Handles] : \A i, j \in 1..n : i # j => s[i] # s[j]}

CoreLists == UNION {InjSeqs(n) : n \in 0..MaxCores}

RECURSIVE ConcatLists(_, _, _)
ConcatLists(d, ks, i) ==
    IF i > Len(ks) THEN <<>>
    ELSE (IF ks[i] \in DOMAIN d THEN d[ks[i]] ELSE <<>>)
         \o ConcatLists(d, ks, i + 1)

\* The cores of every list of the dictionary, in dictionary order.
all_cores(d) == ConcatLists(d, KeyOrder, 1)

Dictionaries ==
    {d \in UNION {[K -> CoreLists] : K \in KeySets} :
        Len(all_cores(d)) <= MaxCores}

VARIABLES
    switchable_cores,   \* the dictionary passed to the constructor
    starting_cores,     \* the starting key passed to the constructor
    get_isa,            \* core.get_isa() of every core
    helper,             \* TRUE: object of class CoreSwitchableHetProcessor
    phase,              \* "new", "constructed" or "failed" (constructor raised)
    current_cores,      \* key of the list self._current_cores refers to
    switched_out,       \* core.switched_out of every core
    prepare_kvm,        \* self._prepare_kvm
    board,              \* hasattr(self, "_board")
    eventq_index,       \* eventq_index of every simulated object
    current_is_start,   \* self._current_is_start
    lastOp,             \* the last call made on the object and its argument
    result,             \* how the last call ended
    swapCalls,          \* argument lists of the m5.switchCpus calls it made
    hist,               \* the latest run of consecutive successful switches
    sim,                \* where the run script x86-ubuntu-run.py stands
    on_exit_event,      \* what is left of the generator for ExitEvent.EXIT
    exit_events         \* number of EXIT events the guest has raised

\* The state of the processor object and the record of the calls made on it.
processor == <<switchable_cores, starting_cores, get_isa, helper, phase,
               current_cores, switched_out, prepare_kvm, board, eventq_index,
               current_is_start, lastOp, result, swapCalls, hist>>

\* The state of the run script.
script == <<sim, on_exit_event, exit_events>>

vars == <<processor, script>>

\* ------------------------------------------------------------------------
\* Accessors
\* ------------------------------------------------------------------------

\* The list self._current_cores refers to.
CurrentCores == switchable_cores[current_cores]

get_cores == CurrentCores

get_num_cores == Len(CurrentCores)

\* The per-core SimObject and the objects below it.
Descendants(core) == {<<core, o>> : o \in SubObjects}

\* ------------------------------------------------------------------------
\* The helper's constructor: two fresh lists of wrappers, same length,
\* at least one entry, one ISA for all, starting at "start".
\* ------------------------------------------------------------------------
HelperShape(d, s, isa) ==
    /\ DOMAIN d = {"start", "switch"}
    /\ s = "start"
    /\ Len(d["start"]) = Len(d["switch"])
    /\ Len(d["start"]) >= 1
    /\ Range(d["start"]) \cap Range(d["switch"]) = {}
    /\ \A a, b \in Range(d["start"]) \cup Range(d["switch"]) : isa[a] = isa[b]

\* ------------------------------------------------------------------------
\* Initial states: a constructor call about to be made
\* ------------------------------------------------------------------------
NewProcessor ==
    /\ switchable_cores \in Dictionaries
    /\ starting_cores \in CallKeys
    /\ get_isa \in IsaChoices
    /\ helper \in BOOLEAN
    /\ helper => HelperShape(switchable_cores, starting_cores, get_isa)
    /\ phase = "new"
    /\ current_cores = "none"
    /\ switched_out = [h \in Handles |-> FALSE]
    /\ prepare_kvm = FALSE
    /\ board = FALSE
    /\ eventq_index = [o \in Objects |-> 0]
    /\ current_is_start = FALSE
    /\ lastOp = [op |-> "none", arg |-> "-"]
    /\ result = "none"
    /\ swapCalls = <<>>
    /\ hist = <<>>

\* A processor used by some caller other than the run script.
Init ==
    /\ NewProcessor
    /\ sim = "none"
    /\ on_exit_event = <<>>
    /\ exit_events = 0

\* ------------------------------------------------------------------------
\* __init__
\* ------------------------------------------------------------------------

\* The ISA assertion on the starting list.
IsaAssertion(cur, isa) == Cardinality({isa[c] : c \in Range(cur)}) = 1

\* The value passed to core.set_switched_out.
SwitchedOutValue_Inverted(core, cur) == core \in Range(cur)
SwitchedOutValue(core, cur) == core \notin Range(cur)

\* The flags after the loop over all lists of the dictionary.
InitSwitchedOut(so, d, cur) ==
    [h \in Handles |->
        IF h \in Range(all_cores(d)) THEN SwitchedOutValue(h, cur) ELSE so[h]]

PrepareKvm(d) == \E c \in Range(all_cores(d)) : is_kvm_core[c]

\* Variant without the check of the starting key: the dictionary lookup
\* then raises KeyError.
InitRaises_NoKeyCheck(d, s, isa) ==
    IF s \notin DOMAIN d THEN "KeyError"
    ELSE IF ~IsaAssertion(d[s], isa) THEN "AssertionError"
    ELSE "none"

\* What the constructor raises: "none" when it returns.
InitRaises(d, s, isa) ==
    IF s \notin DOMAIN d THEN "AssertionError"
    ELSE IF ~IsaAssertion(d[s], isa) THEN "AssertionError"
    ELSE "none"

Construct ==
    /\ phase = "new"
    /\ lastOp' = [op |-> "__init__", arg |-> starting_cores]
    /\ swapCalls' = <<>>
    /\ hist' = <<>>
    /\ LET exc == InitRaises(switchable_cores, starting_cores, get_isa) IN
       IF exc # "none"
       THEN /\ phase' = "failed"
            /\ result' = exc
            /\ UNCHANGED <<current_cores, switched_out, prepare_kvm,
                           current_is_start>>
       ELSE /\ phase' = "constructed"
            /\ result' = "ok"
            /\ current_cores' = starting_cores
            /\ switched_out' =
                   InitSwitchedOut(switched_out, switchable_cores,
                                   switchable_cores[starting_cores])
            /\ prepare_kvm' = PrepareKvm(switchable_cores)
            /\ current_is_start' = IF helper THEN TRUE ELSE current_is_start
    /\ UNCHANGED <<switchable_cores, starting_cores, get_isa, helper, board,
                   eventq_index>>

\* ------------------------------------------------------------------------
\* incorporate_processor
\* ------------------------------------------------------------------------

kvm_cores(d) == SelectSeq(all_cores(d), LAMBDA c : is_kvm_core[c])

\* The index written to the i-th KVM core (i counted from 0).
CoreEventq_FromZero(i) == i
CoreEventq(i) == i + 1

\* The index written to every object below a KVM core.
DescendantEventq_Inherit(i) == i + 1
DescendantEventq(i) == 0

\* Variant: the numbering of a core continues from the index it has.
EventqStep_Accumulate(eq, core, i) ==
    [o \in Objects |->
        IF o = <<core, "cpu">> THEN eq[o] + CoreEventq(i)
        ELSE IF o \in Descendants(core) THEN DescendantEventq(i)
        ELSE eq[o]]

\* One iteration of the loop over the KVM cores.
EventqStep(eq, core, i) ==
    [o \in Objects |->
        IF o = <<core, "cpu">> THEN CoreEventq(i)
        ELSE IF o \in Descendants(core) THEN DescendantEventq(i)
        ELSE eq[o]]

RECURSIVE EventqLoop(_, _, _)
EventqLoop(eq, kc, n) ==
    IF n > Len(kc) THEN eq
    ELSE EventqLoop(EventqStep(eq, kc[n], n - 1), kc, n + 1)

AssignEventq(eq, d, pk) ==
    IF pk THEN EventqLoop(eq, kvm_cores(d), 1) ELSE eq

\* Variant: a guard that refuses a processor that already has a board.
IncorporateRaises_Guarded(b) == IF b THEN "AssertionError" ELSE "none"

\* What incorporate_processor raises: it has no check, whether or not the
\* processor already has a board.
IncorporateRaises(b) == "none"

Incorporate ==
    /\ phase = "constructed"
    /\ LET exc == IncorporateRaises(board) IN
       IF exc # "none"
       THEN /\ result' = exc
            /\ UNCHANGED <<board, eventq_index>>
       ELSE /\ result' = "ok"
            /\ board' = TRUE
            /\ eventq_index' =
                   AssignEventq(eventq_index, switchable_cores, prepare_kvm)
    /\ lastOp' = [op |-> "incorporate_processor", arg |-> "-"]
    /\ swapCalls' = <<>>
    /\ hist' = <<>>
    /\ UNCHANGED <<switchable_cores, starting_cores, get_isa, helper, phase,
                   current_cores, switched_out, prepare_kvm, current_is_start>>

\* ------------------------------------------------------------------------
\* switch_to_processor
\* ------------------------------------------------------------------------

\* Variants of the checks with one check left out (a missing key then
\* surfaces as the KeyError of the dictionary lookup).
SwitchChecks_NoBoardCheck(b, d, cur, key) ==
    IF key \notin DOMAIN d THEN "AssertionError"
    ELSE IF d[key] = d[cur] THEN "AssertionError"
    ELSE IF Len(d[key]) # Len(d[cur]) THEN "AssertionError"
    ELSE "none"

SwitchChecks_NoKeyCheck(b, d, cur, key) ==
    IF ~b THEN "AssertionError"
    ELSE IF key \notin DOMAIN d THEN "KeyError"
    ELSE IF d[key] = d[cur] THEN "AssertionError"
    ELSE IF Len(d[key]) # Len(d[cur]) THEN "AssertionError"
    ELSE "none"

SwitchChecks_NoSameCheck(b, d, cur, key) ==
    IF ~b THEN "AssertionError"
    ELSE IF key \notin DOMAIN d THEN "AssertionError"
    ELSE IF Len(d[key]) # Len(d[cur]) THEN "AssertionError"
    ELSE "none"

SwitchChecks_NoLenCheck(b, d, cur, key) ==
    IF ~b THEN "AssertionError"
    ELSE IF key \notin DOMAIN d THEN "AssertionError"
    ELSE IF d[key] = d[cur] THEN "AssertionError"
    ELSE "none"

\* Variant that compares the two lists as sets of cores.
SwitchChecks_SetCompare(b, d, cur, key) ==
    IF ~b THEN "AssertionError"
    ELSE IF key \notin DOMAIN d THEN "AssertionError"
    ELSE IF Range(d[key]) = Range(d[cur]) THEN "AssertionError"
    ELSE IF Len(d[key]) # Len(d[cur]) THEN "AssertionError"
    ELSE "none"

\* What the checks before the swap raise: "none" when they all pass.
SwitchChecks(b, d, cur, key) ==
    IF ~b THEN "AssertionError"
    ELSE IF key \notin DOMAIN d THEN "AssertionError"
    ELSE IF d[key] = d[cur] THEN "AssertionError"
    ELSE IF Len(d[key]) # Len(d[cur]) THEN "AssertionError"
    ELSE "none"

Min(a, b) == IF a <= b THEN a ELSE b

\* Variant: the pairs the other way round.
SwapPairs_Reversed(cur, to) ==
    [i \in 1..Min(Len(cur), Len(to)) |-> <<to[i], cur[i]>>]

\* list(zip(current_core_simobj, to_switch_simobj)): zip stops at the end
\* of the shorter list.
SwapPairs(cur, to) == [i \in 1..Min(Len(cur), Len(to)) |-> <<cur[i], to[i]>>]

\* Variants: the assignment forgotten, or made before the call.
CurrentAfterSwap_Stale(cur, key, swapped) == cur
CurrentAfterSwap_Early(cur, key, swapped) == key

\* self._current_cores after the call to m5.switchCpus: the assignment is
\* reached only when that call returned.
CurrentAfterSwap(cur, key, swapped) == IF swapped THEN key ELSE cur

\* Variant: a switch that rewrites the flags of the two lists.
SwitchedOutAfterSwap_Updates(so, d, cur, key, swapped) ==
    IF swapped
    THEN [h \in Handles |->
            IF h \in Range(d[key]) THEN FALSE
            ELSE IF h \in Range(d[cur]) THEN TRUE
            ELSE so[h]]
    ELSE so

\* The flags after a switch: switch_to_processor writes none of them.
SwitchedOutAfterSwap(so, d, cur, key, swapped) == so

\* Variant: a switch that hands the event queue of each outgoing core to
\* the incoming core of the same slot.
EventqAfterSwap_BySlot(eq, d, cur, key, swapped) ==
    IF swapped
    THEN [o \in Objects |->
            IF \E i \in 1..Len(d[key]) : o = <<d[key][i], "cpu">>
            THEN LET i == CHOOSE j \in 1..Len(d[key]) : o = <<d[key][j], "cpu">>
                 IN eq[<<d[cur][i], "cpu">>]
            ELSE eq[o]]
    ELSE eq

\* The event queue indices after a switch: switch_to_processor writes none.
EventqAfterSwap(eq, d, cur, key, swapped) == eq

\* The record of the latest run of consecutive successful switches (at most
\* the last three): which method, to which key, from which key, and the
\* flags before and after.  Any other call ends the run.
HistAfter(h, op, key, res, from, before, after) ==
    IF res = "ok"
    THEN LET e == [op |-> op, key |-> key, from |-> from,
                   before |-> before, after |-> after]
             l == Append(h, e)
         IN IF Len(l) > 3 THEN Tail(l) ELSE l
    ELSE <<>>

\* The effect of self.switch_to_processor(key); swapOk says whether
\* m5.switchCpus returns.
SwitchBody(key, swapOk) ==
    LET exc == SwitchChecks(board, switchable_cores, current_cores, key) IN
    IF exc # "none"
    THEN /\ result' = exc
         /\ swapCalls' = <<>>
         /\ UNCHANGED <<current_cores, switched_out, eventq_index>>
    ELSE /\ swapCalls' = <<SwapPairs(CurrentCores, switchable_cores[key])>>
         /\ result' = IF swapOk THEN "ok" ELSE "SubstrateError"
         /\ current_cores' = CurrentAfterSwap(current_cores, key, swapOk)
         /\ switched_out' =
                SwitchedOutAfterSwap(switched_out, switchable_cores,
                                     current_cores, key, swapOk)
         /\ eventq_index' =
                EventqAfterSwap(eventq_index, switchable_cores,
                                current_cores, key, swapOk)

SwitchTo(key, swapOk) ==
    /\ phase = "constructed"
    /\ SwitchBody(key, swapOk)
    /\ lastOp' = [op |-> "switch_to_processor", arg |-> key]
    /\ hist' = HistAfter(hist, "switch_to_processor", key, result',
                         current_cores, switched_out, switched_out')
    /\ UNCHANGED <<switchable_cores, starting_cores, get_isa, helper, phase,
                   prepare_kvm, board, current_is_start>>

\* ------------------------------------------------------------------------
\* CoreSwitchableHetProcessor.switch
\* ------------------------------------------------------------------------

ToggleTarget(flag) == IF flag THEN "switch" ELSE "start"

\* Variant: the negation made whether or not switch_to_processor returned
\* (as in a finally clause).
FlagAfterSwitch_Always(flag, res) == ~flag

\* self._current_is_start after switch(): the negation is reached only
\* when switch_to_processor returned.
FlagAfterSwitch(flag, res) == IF res = "ok" THEN ~flag ELSE flag

Toggle(swapOk) ==
    /\ phase = "constructed"
    /\ helper
    /\ SwitchBody(ToggleTarget(current_is_start), swapOk)
    /\ current_is_start' = FlagAfterSwitch(current_is_start, result')
    /\ lastOp' = [op |-> "switch", arg |-> ToggleTarget(current_is_start)]
    /\ hist' = HistAfter(hist, "switch", ToggleTarget(current_is_start),
                         result', current_cores, switched_out, switched_out')
    /\ UNCHANGED <<switchable_cores, starting_cores, get_isa, helper, phase,
                   prepare_kvm, board>>

\* ------------------------------------------------------------------------
\* Specification
\* ------------------------------------------------------------------------
\* The calls as made by any caller other than the run script, which they
\* leave alone.
ConstructCall == Construct /\ UNCHANGED script

IncorporateCall == Incorporate /\ UNCHANGED script

SwitchToCall(key, swapOk) == SwitchTo(key, swapOk) /\ UNCHANGED script

ToggleCall(swapOk) == Toggle(swapOk) /\ UNCHANGED script

Next ==
    \/ ConstructCall
    \/ IncorporateCall
    \/ \E key \in CallKeys, swapOk \in BOOLEAN : SwitchToCall(key, swapOk)
    \/ \E swapOk \in BOOLEAN : ToggleCall(swapOk)

Spec == Init /\ [][Next]_vars

TypeOK ==
    /\ phase \in {"new", "constructed", "failed"}
    /\ result \in {"none", "ok", "AssertionError", "SubstrateError"}
    /\ Len(swapCalls) <= 1
    /\ Len(hist) <= 3
    /\ phase = "constructed" => current_cores \in DOMAIN switchable_cores
    /\ sim \in {"none", "script", "processor", "board", "running", "ended",
                "crashed"}
    /\ exit_events \in 0..MaxExits

\* ------------------------------------------------------------------------
\* The run script x86-ubuntu-run.py
\* ------------------------------------------------------------------------

\* The script starts with the list of core pairs it is about to hand to
\* CoreSwitchableHetProcessor.
DriverInit ==
    /\ NewProcessor
    /\ helper
    /\ sim = "script"
    /\ on_exit_event = <<>>
    /\ exit_events = 0

\* processor = switchable_hetproc.CoreSwitchableHetProcessor(...): an
\* exception of the constructor ends the script.
DriverProcessor ==
    /\ sim = "script"
    /\ Construct
    /\ sim' = IF phase' = "constructed" THEN "processor" ELSE "crashed"
    /\ UNCHANGED <<on_exit_event, exit_events>>

\* board = X86Board_sda(processor=processor, ...): the board hands itself
\* to its processor with incorporate_processor before the guest runs.
DriverBoard ==
    /\ sim = "processor"
    /\ Incorporate
    /\ sim' = IF result' = "ok" THEN "board" ELSE "crashed"
    /\ UNCHANGED <<on_exit_event, exit_events>>

\* (func() for func in [processor.switch] * SwitchRepeat): the calls the
\* generator has to offer, one per item of the list.
OnExitEvent == [i \in 1..SwitchRepeat |-> "switch"]

\* simulator = Simulator(board=board, on_exit_event={ExitEvent.EXIT: ...})
\* and simulator.run().
DriverRun ==
    /\ sim = "board"
    /\ on_exit_event' = OnExitEvent
    /\ sim' = "running"
    /\ UNCHANGED <<processor, exit_events>>

\* The guest raises an EXIT event.  While the generator has an item, taking
\* it calls processor.switch(); the call yields None, on which the run goes
\* on, and an exception of the call ends the script.  Once the generator has
\* no item left, no call is made on the processor; whether the run then
\* ends is decided by the simulator, outside the script (ends).
ExitEvent(swapOk, ends) ==
    /\ sim = "running"
    /\ exit_events < MaxExits
    /\ exit_events' = exit_events + 1
    /\ IF on_exit_event # <<>>
       THEN /\ Toggle(swapOk)
            /\ on_exit_event' = Tail(on_exit_event)
            /\ sim' = IF result' = "ok" THEN "running" ELSE "crashed"
       ELSE /\ UNCHANGED <<processor, on_exit_event>>
            /\ sim' = IF ends THEN "ended" ELSE "running"

DriverNext ==
    \/ DriverProcessor
    \/ DriverBoard
    \/ DriverRun
    \/ \E swapOk \in BOOLEAN, ends \in BOOLEAN : ExitEvent(swapOk, ends)

DriverSpec == DriverInit /\ [][DriverNext]_vars

\* ------------------------------------------------------------------------
\* Vocabulary of the properties
\* ------------------------------------------------------------------------
Constructed == phase = "constructed"

Incorporated == Constructed /\ board

\* The cores the processor owns: those of every list of its dictionary.
OwnedCores == Range(all_cores(switchable_cores))

StartingCores == switchable_cores[starting_cores]

\* The timeline (event queue) index of a core's own SimObject.
Timeline(core) == eventq_index[<<core, "cpu">>]

\* The step is a call switch_to_processor(key) on a constructed processor.
SwitchToStep == Constructed /\ lastOp'.op = "switch_to_processor"

\* The call raised a usage error before reaching the simulator and changed
\* neither the active list nor a flag.
RejectedUnchanged ==
    /\ result' = "AssertionError"
    /\ swapCalls' = <<>>
    /\ UNCHANGED <<current_cores, switched_out>>

\* ------------------------------------------------------------------------
\* C1
\* ------------------------------------------------------------------------

C2_ActiveIsTarget ==
    (Constructed /\ lastOp.op = "switch_to_processor" /\ result = "ok") =>
        LET target == switchable_cores[lastOp.arg] IN
        /\ Len(get_cores) = Len(target)
        /\ \A i \in 1..Len(target) : get_cores[i] = target[i]
        /\ get_num_cores = Len(target)

\* A successful switch to a two-slot list other than the starting one.
C2_Witness ==
    /\ lastOp.op = "switch_to_processor"
    /\ result = "ok"
    /\ lastOp.arg # starting_cores
    /\ get_num_cores = 2
    /\ get_cores[1] # StartingCores[1]

\* ------------------------------------------------------------------------
\* C3
\* ------------------------------------------------------------------------

\* C3: when m5.switchCpus raises, the active list, every flag and the
\* helper's _current_is_start are as before the call, the caller sees the
\* simulator's error, and the same switch passes the checks afterwards.
C3_SubstrateFailureKeepsState ==
    [][ (Constructed /\ result' = "SubstrateError") =>
          /\ UNCHANGED <<current_cores, switched_out, current_is_start>>
          /\ Len(swapCalls') = 1
          /\ SwitchChecks(board', switchable_cores', current_cores',
                          lastOp'.arg) = "none" ]_vars

\* switch() failed in the simulator after an earlier successful switch().
C3_Witness ==
    /\ lastOp.op = "switch"
    /\ result = "SubstrateError"
    /\ ~current_is_start
    /\ current_cores = "switch"

\* ------------------------------------------------------------------------
\* C4
\* ------------------------------------------------------------------------

\* C4: switch_to_processor(key) with key the active key raises a usage
\* error, does not call m5.switchCpus and changes neither the active list
\* nor a flag.
C4_SwitchToActiveRejected ==
    [][ (SwitchToStep /\ lastOp'.arg = current_cores) => RejectedUnchanged ]_vars

\* An incorporated processor rejected a switch to its active key.
C4_Witness ==
    /\ Incorporated
    /\ lastOp.op = "switch_to_processor"
    /\ lastOp.arg = current_cores
    /\ result = "AssertionError"
    /\ Cardinality(DOMAIN switchable_cores) > 1

\* ------------------------------------------------------------------------
\* C5
\* ------------------------------------------------------------------------

\* C5: switch_to_processor(key) with key not in the dictionary raises a
\* usage error, does not call m5.switchCpus and changes neither the active
\* list nor a flag.
C5_SwitchToUnknownRejected ==
    [][ (SwitchToStep /\ lastOp'.arg \notin DOMAIN switchable_cores)
            => RejectedUnchanged ]_vars

\* An incorporated processor rejected a switch to a key it does not have.
C5_Witness ==
    /\ Incorporated
    /\ lastOp.op = "switch_to_processor"
    /\ lastOp.arg \notin DOMAIN switchable_cores
    /\ result = "AssertionError"

\* ------------------------------------------------------------------------
\* C6
\* ------------------------------------------------------------------------

\* Before incorporation every switch_to_processor raises a usage error,
\* calls nothing and keeps the active list.
RejectedWhenNotIncorporated ==
    ~board => (RejectedUnchanged /\ board' = board)

\* C6 (as stated): before incorporation every switch is rejected; after
\* incorporation a switch to a known key other than the active one is
\* accepted.
C6_AcceptedOnceIncorporated ==
    [][ SwitchToStep =>
          /\ RejectedWhenNotIncorporated
          /\ (/\ board
              /\ lastOp'.arg \in DOMAIN switchable_cores
              /\ lastOp'.arg # current_cores)
             => result' # "AssertionError" ]_vars

\* C6 (amended): before incorporation every switch is rejected; after
\* incorporation a switch to a known key is accepted when the list under
\* that key differs from the active list and has the same length.
C6_AcceptedOnceIncorporatedIfSwappable ==
    [][ SwitchToStep =>
          /\ RejectedWhenNotIncorporated
          /\ (/\ board
              /\ lastOp'.arg \in DOMAIN switchable_cores
              /\ switchable_cores[lastOp'.arg] # CurrentCores
              /\ Len(switchable_cores[lastOp'.arg]) = Len(CurrentCores))
             => (result' # "AssertionError" /\ Len(swapCalls') = 1) ]_vars

\* A switch to a known, different list of equal length was rejected because
\* the processor was not incorporated.
C6_Witness ==
    /\ Constructed
    /\ ~board
    /\ lastOp.op = "switch_to_processor"
    /\ result = "AssertionError"
    /\ lastOp.arg \in DOMAIN switchable_cores
    /\ switchable_cores[lastOp.arg] # CurrentCores
    /\ Len(switchable_cores[lastOp.arg]) = Len(CurrentCores)

\* ------------------------------------------------------------------------
\* C7
\* ------------------------------------------------------------------------

\* C7: when the processor is incorporated, the active list is the starting
\* list, every core outside it is flagged switched out and every core in
\* it is not.
C7_FlagsAfterIncorporate ==
    [][ (Constructed /\ ~board /\ lastOp'.op = "incorporate_processor") =>
          /\ current_cores' = starting_cores
          /\ \A h \in OwnedCores :
                switched_out'[h] =
                    (h \notin Range(switchable_cores'[current_cores'])) ]_vars

\* Just incorporated, with cores both inside and outside the active list.
C7_Witness ==
    /\ lastOp.op = "incorporate_processor"
    /\ \E h \in OwnedCores : switched_out[h]
    /\ \E h \in OwnedCores : ~switched_out[h]
    /\ get_num_cores = 2

\* ------------------------------------------------------------------------
\* C8
\* ------------------------------------------------------------------------

\* C8: after incorporation every KVM core of any list has a timeline index
\* that is not 0 and differs from that of every other KVM core, and every
\* other core has timeline index 0.
C8_KvmTimelinesDistinct ==
    Incorporated =>
        /\ \A h \in OwnedCores :
              is_kvm_core[h] =>
                  /\ Timeline(h) # 0
                  /\ \A g \in OwnedCores :
                        (is_kvm_core[g] /\ g # h) => Timeline(g) # Timeline(h)
        /\ \A h \in OwnedCores : ~is_kvm_core[h] => Timeline(h) = 0

\* Incorporated with two KVM cores, one of them outside the active list,
\* and a core that is not a KVM core.
C8_Witness ==
    /\ Incorporated
    /\ \E h, g \in OwnedCores : h # g /\ is_kvm_core[h] /\ is_kvm_core[g]
    /\ \E h \in OwnedCores \ Range(CurrentCores) : is_kvm_core[h]
    /\ \E h \in OwnedCores : ~is_kvm_core[h]

\* ------------------------------------------------------------------------
\* C9
\* ------------------------------------------------------------------------

\* C9 (as stated): after incorporation every object below a KVM core has
\* the timeline index of that core, which is not 0.
C9_DescendantsOnCoreTimeline ==
    Incorporated =>
        \A h \in OwnedCores :
            is_kvm_core[h] =>
                \A o \in Descendants(h) :
                    eventq_index[o] = Timeline(h) /\ eventq_index[o] # 0

\* C9 (amended): after incorporation only the KVM core's own SimObject is
\* on the private timeline; every object below it has timeline index 0.
C9_DescendantsOnDefaultTimeline ==
    Incorporated =>
        \A h \in OwnedCores :
            is_kvm_core[h] =>
                /\ Timeline(h) # 0
                /\ \A o \in Descendants(h) : eventq_index[o] = 0

\* Incorporated with a KVM core in the active list.
C9_Witness ==
    /\ Incorporated
    /\ \E h \in Range(CurrentCores) : is_kvm_core[h] /\ Timeline(h) # 0

\* ------------------------------------------------------------------------
\* C10
\* ------------------------------------------------------------------------

\* C10 (as stated): every constructed processor has lists of one length:
\* the active list is as long as the list under every key.
C10_AllSlotCountsEqual ==
    Constructed =>
        \A k \in DOMAIN switchable_cores :
            Len(CurrentCores) = Len(switchable_cores[k])

\* C10 (amended): the constructor raises only for an unknown starting key
\* or a starting list without exactly one ISA, not for lists of different
\* length; what holds of every constructed processor is that the active
\* list always has the length of the starting list.
C10_ActiveSlotCountIsStartingSlotCount ==
    /\ phase = "failed" =>
          \/ starting_cores \notin DOMAIN switchable_cores
          \/ ~IsaAssertion(StartingCores, get_isa)
    /\ Constructed => Len(CurrentCores) = Len(StartingCores)

\* A processor whose lists differ in length, after a successful switch.
C10_Witness ==
    /\ Constructed
    /\ \E k \in DOMAIN switchable_cores :
          Len(switchable_cores[k]) # Len(CurrentCores)
    /\ lastOp.op = "switch_to_processor"
    /\ result = "ok"

\* ------------------------------------------------------------------------
\* C11
\* ------------------------------------------------------------------------

\* C11: all cores of a constructed processor, those of every list of its
\* dictionary, have one ISA (the constructor raises otherwise).
C11_OneIsaAcrossAllLists ==
    Constructed => Cardinality({get_isa[h] : h \in OwnedCores}) = 1

\* ------------------------------------------------------------------------
\* C12
\* ------------------------------------------------------------------------

\* C12: the constructor called with a starting key that is not in the
\* dictionary raises a usage error and has written no switched_out flag.
C12_UnknownStartingKeyRejected ==
    [][ (phase = "new" /\ lastOp'.op = "__init__"
            /\ starting_cores \notin DOMAIN switchable_cores) =>
          /\ phase' = "failed"
          /\ result' = "AssertionError"
          /\ UNCHANGED <<switched_out, current_cores>> ]_vars

\* A constructor call with an unknown starting key and a dictionary that
\* has cores has failed.
C12_Witness ==
    /\ phase = "failed"
    /\ starting_cores \notin DOMAIN switchable_cores
    /\ OwnedCores # {}
    /\ \A h \in Handles : ~switched_out[h]

\* ------------------------------------------------------------------------
\* C13
\* ------------------------------------------------------------------------

\* The latest three calls were successful switch_to_processor calls to the
\* keys X, Y, X with Y other than X.
RoundTripDone ==
    /\ Len(hist) = 3
    /\ \A i \in 1..3 : hist[i].op = "switch_to_processor"
    /\ hist[1].key = hist[3].key
    /\ hist[2].key # hist[1].key

C14_ToggleTwiceRestores ==
    [][ (Incorporated /\ helper /\ lastOp'.op = "switch"
            /\ result' # "SubstrateError") =>
          /\ current_cores' # current_cores
          /\ (Len(hist') >= 2 /\ hist'[Len(hist') - 1].op = "switch") =>
                /\ current_cores' = hist'[Len(hist') - 1].from
                /\ switched_out' = hist'[Len(hist') - 1].before ]_vars

\* ------------------------------------------------------------------------
\* C15
\* ------------------------------------------------------------------------

\* C15: no call other than incorporate_processor, in particular no
\* switch_to_processor and no switch, whether it returns or raises, changes
\* the eventq_index of any object.
C15_OnlyIncorporateWritesTimelines ==
    [][ lastOp'.op # "incorporate_processor" => UNCHANGED eventq_index ]_vars

\* A successful switch from a list with a KVM core to a list with a core
\* that is not one, each still on the timeline incorporation gave it.
C15_Witness ==
    /\ Incorporated
    /\ lastOp.op \in {"switch_to_processor", "switch"}
    /\ result = "ok"
    /\ \E h \in Range(CurrentCores) : ~is_kvm_core[h] /\ Timeline(h) = 0
    /\ \E h \in OwnedCores \ Range(CurrentCores) :
          is_kvm_core[h] /\ Timeline(h) # 0

\* ------------------------------------------------------------------------
\* C16
\* ------------------------------------------------------------------------

\* C16 (as stated): incorporate_processor called on a processor that is
\* already incorporated raises a usage error.
C16_SecondIncorporateRejected ==
    [][ (Incorporated /\ lastOp'.op = "incorporate_processor")
            => result' = "AssertionError" ]_vars

\* C16 (amended): incorporate_processor called on a processor that is
\* already incorporated returns normally; the processor stays incorporated
\* and its active list and flags are as before.
C16_SecondIncorporateAccepted ==
    [][ (Incorporated /\ lastOp'.op = "incorporate_processor") =>
          /\ result' = "ok"
          /\ board'
          /\ UNCHANGED <<current_cores, switched_out>> ]_vars

\* incorporate_processor has returned on a processor that had switched
\* before, so had been incorporated before.
C16_Witness ==
    /\ Incorporated
    /\ lastOp.op = "incorporate_processor"
    /\ result = "ok"
    /\ current_cores # starting_cores

\* ------------------------------------------------------------------------
\* C17
\* ------------------------------------------------------------------------

\* C17: on a processor whose dictionary has one key, every
\* switch_to_processor raises a usage error, whatever the key, and the
\* active list stays the starting list.
C17_SingleKeyNeverSwitches ==
    [][ (SwitchToStep /\ Cardinality(DOMAIN switchable_cores) = 1) =>
          /\ result' = "AssertionError"
          /\ swapCalls' = <<>>
          /\ current_cores' = starting_cores
          /\ current_cores = starting_cores ]_vars

\* An incorporated one-key processor rejected a switch to its own key.
C17_Witness ==
    /\ Incorporated
    /\ Cardinality(DOMAIN switchable_cores) = 1
    /\ lastOp = [op |-> "switch_to_processor", arg |-> starting_cores]
    /\ result = "AssertionError"

\* ------------------------------------------------------------------------
\* C18
\* ------------------------------------------------------------------------

\* C18: a successful switch_to_processor(key) calls m5.switchCpus once,
\* with one pair per slot in slot order, pair i being (core i of the list
\* active before the call, core i of the list under key).
C18_OneSwapCallWithAlignedPairs ==
    [][ (SwitchToStep /\ result' = "ok") =>
          LET old == CurrentCores
              new == switchable_cores[lastOp'.arg]
          IN /\ Len(swapCalls') = 1
             /\ Len(swapCalls'[1]) = Len(old)
             /\ Len(swapCalls'[1]) = Len(new)
             /\ \A i \in 1..Len(old) :
                   swapCalls'[1][i] = <<old[i], new[i]>> ]_vars

\* A successful switch of a two-slot processor.
C18_Witness ==
    /\ lastOp.op = "switch_to_processor"
    /\ result = "ok"
    /\ Len(swapCalls) = 1
    /\ Len(swapCalls[1]) = 2

\* ------------------------------------------------------------------------
\* C19
\* ------------------------------------------------------------------------

\* Some key passes the checks of switch_to_processor in the state reached.
SomeSwitchPasses ==
    \E k \in DOMAIN switchable_cores' :
        SwitchChecks(board', switchable_cores', current_cores', k) = "none"

\* C19 (as stated): on an incorporated processor a switch to any known key
\* other than the active one whose list has the length of the active list
\* is accepted, whatever the two lists hold, and afterwards some switch is
\* still possible.
C19_AnyOtherNameAccepted ==
    [][ (SwitchToStep /\ board
            /\ lastOp'.arg \in DOMAIN switchable_cores
            /\ lastOp'.arg # current_cores
            /\ Len(switchable_cores[lastOp'.arg]) = Len(CurrentCores)) =>
          /\ result' \in {"ok", "SubstrateError"}
          /\ SomeSwitchPasses ]_vars

\* C19 (amended): on an incorporated processor a switch to any known key
\* whose list differs from the active list and has its length is accepted,
\* after any number of earlier switches, and afterwards some switch is
\* still possible.
C19_AnyOtherListAccepted ==
    [][ (SwitchToStep /\ board
            /\ lastOp'.arg \in DOMAIN switchable_cores
            /\ switchable_cores[lastOp'.arg] # CurrentCores
            /\ Len(switchable_cores[lastOp'.arg]) = Len(CurrentCores)) =>
          /\ result' \in {"ok", "SubstrateError"}
          /\ result' = "ok" => current_cores' = lastOp'.arg
          /\ SomeSwitchPasses ]_vars

\* A third successful switch in a row, to a list that holds the same cores
\* as the list it replaced, in another order.
C19_Witness ==
    /\ Len(hist) = 3
    /\ lastOp.op = "switch_to_processor"
    /\ result = "ok"
    /\ Range(CurrentCores) = Range(switchable_cores[hist[3].from])

\* ------------------------------------------------------------------------
\* C20
\* ------------------------------------------------------------------------

\* C20: on the helper, after any calls of switch and switch_to_processor,
\* _current_is_start is true exactly when the starting list is active, so
\* that switch() targets the list that is not active.
C20_FlagTracksActiveList ==
    (Constructed /\ helper) =>
        /\ current_is_start = (current_cores = starting_cores)
        /\ ToggleTarget(current_is_start) # current_cores

\* ------------------------------------------------------------------------
\* C21
\* ------------------------------------------------------------------------

\* The step in which the run script handles the guest's first EXIT event.
FirstExitEvent == sim = "running" /\ exit_events = 0 /\ exit_events' = 1

\* C21: in the run script, the first EXIT event the guest raises calls the
\* processor's switch() and does not end the simulation.
C21_FirstExitInvokesSwitch ==
    [][FirstExitEvent => (lastOp'.op = "switch" /\ sim' # "ended")]_vars

\* ------------------------------------------------------------------------
\* C22
\* ------------------------------------------------------------------------

\* The step is a call of switch_to_processor or switch() that asks for the
\* list under key.
SwitchRequest(key) ==
    /\ lastOp'.op \in {"switch_to_processor", "switch"}
    /\ lastOp'.arg = key

\* C22: no call on a constructed processor (incorporate_processor,
\* switch_to_processor, switch(), returning or raising) changes
\* get_num_cores(), also when the lists differ in length: a switch to a
\* list of another length raises a usage error and m5.switchCpus is not
\* called.
C22_NumCoresNeverChanges ==
    [][ Constructed =>
          /\ get_num_cores' = get_num_cores
          /\ \A key \in DOMAIN switchable_cores :
                (SwitchRequest(key)
                     /\ Len(switchable_cores[key]) # get_num_cores)
                  => (result' = "AssertionError" /\ swapCalls' = <<>>) ]_vars

\* An incorporated processor has just refused a switch to a list whose
\* length differs from that of the active list.
C22_Witness ==
    /\ Incorporated
    /\ lastOp.op \in {"switch_to_processor", "switch"}
    /\ lastOp.arg \in DOMAIN switchable_cores
    /\ Len(switchable_cores[lastOp.arg]) # get_num_cores
    /\ result = "AssertionError"
    /\ swapCalls = <<>>

\* ------------------------------------------------------------------------
\* C23
\* ------------------------------------------------------------------------

\* The step is a call of switch() that raised: a usage error of
\* switch_to_processor or a failure of m5.switchCpus.
FailedToggleStep ==
    /\ Constructed
    /\ helper
    /\ lastOp'.op = "switch"
    /\ result' # "ok"

\* C23: a call of switch() that raises leaves _current_is_start as it was,
\* so that the target of the next switch() is the list the failed call
\* asked for, and a switch() made right after it asks for that list again.
C23_FailedToggleKeepsFlag ==
    [][ /\ FailedToggleStep =>
              /\ current_is_start' = current_is_start
              /\ ToggleTarget(current_is_start') = lastOp'.arg
        /\ (lastOp.op = "switch" /\ result # "ok" /\ lastOp'.op = "switch")
              => lastOp'.arg = lastOp.arg ]_vars

\* switch() has succeeded once and then failed in m5.switchCpus on the way
\* back to the "start" list.
C23_Witness ==
    /\ Constructed
    /\ helper
    /\ lastOp.op = "switch"
    /\ lastOp.arg = "start"
    /\ result = "SubstrateError"
    /\ ~current_is_start

\* ------------------------------------------------------------------------
\* C24
\* ------------------------------------------------------------------------

\* The step is a call of incorporate_processor on a constructed processor.
IncorporateStep == Constructed /\ lastOp'.op = "incorporate_processor"

\* The indices the first call of incorporate_processor leaves: those it
\* writes on objects that all have the default index.
FirstCallEventq ==
    AssignEventq([o \in Objects |-> 0], switchable_cores, prepare_kvm)

\* C24: incorporate_processor changes neither the active list nor a
\* switched-out flag, and every call of it, the first or a later one, also
\* after switches, leaves every core and every object below a core on the
\* event queue index the first call gives it.
C24_IncorporateKeepsStateAndTimelines ==
    [][ IncorporateStep =>
          /\ UNCHANGED <<current_cores, switched_out>>
          /\ eventq_index' = FirstCallEventq
          /\ board => eventq_index' = eventq_index ]_vars

\* incorporate_processor has been called again after a switch, on a
\* processor with two KVM cores on event queues of their own.
C24_Witness ==
    /\ Incorporated
    /\ lastOp.op = "incorporate_processor"
    /\ current_cores # starting_cores
    /\ prepare_kvm
    /\ \E a, b \in OwnedCores :
          /\ a # b
          /\ Timeline(a) # 0
          /\ Timeline(b) # 0
          /\ Timeline(a) # Timeline(b)

====
